---- MODULE Spec2Model ----
(***************************************************************************)
(* Model of tableau_metadata_extractor.py: the formula resolver            *)
(* (clean_calculation_formula), the metadata extractor (extract_all_data), *)
(* the row builder (build_final_output) and the batch driver               *)
(* (process_all_files, write_final_csv).                                   *)
(*                                                                         *)
(* Text that the program inspects character by character (formulas,        *)
(* calculation ids, display names, field names, calculation classes) is a  *)
(* sequence of one-character strings.  Text that the program only copies   *)
(* or compares as a whole (worksheet names, datasource names, roles, file  *)
(* names, status words) is a TLA+ string.                                  *)
(***************************************************************************)
EXTENDS Naturals, Sequences, FiniteSets, TLC

VARIABLES
    pc,                 \* position of the running function
    raw_formula,        \* clean_calculation_formula: argument raw_formula
    calc_map,           \* clean_calculation_formula: argument calc_map
    cleaned,            \* clean_calculation_formula: returned formula
    status,             \* clean_calculation_formula: returned status
    replacements_made,  \* clean_calculation_formula: local replacement counter
    recleaned,          \* result of cleaning `cleaned` once more with calc_map
    root,               \* extract_all_data: the document tree
    data,               \* extract_all_data: the intermediate model being built
    files,              \* process_all_files: the files os.walk yields, in order
    fi,                 \* process_all_files: index of the file being visited
    log,                \* names printed by "Error processing ..."
    all_workbook_data,  \* the dict filename -> model, as the sequence of its items
    wb,                 \* build_final_output: index of the workbook being built
    fld,                \* build_final_output: index of the field being built
    column_id,          \* build_final_output: next Column ID
    final_rows,         \* build_final_output: rows emitted so far
    written             \* rows written by write_final_csv

cleanVars == <<raw_formula, calc_map, cleaned, status, replacements_made, recleaned>>
extractVars == <<root, data>>
processVars == <<files, fi, log>>
buildVars == <<wb, fld, column_id, final_rows>>
batchVars == <<processVars, all_workbook_data, buildVars, written>>

vars == <<pc, cleanVars, extractVars, batchVars>>

(***************************************************************************)
(* Bounds of the model.                                                    *)
(***************************************************************************)
MaxPieces == 2      \* a formula is the concatenation of at most MaxPieces pieces
MaxDecls == 2       \* calculation declarations in a document
MaxRefs == 2        \* column references per worksheet and per source
MaxCols == 1        \* columns of a datasource whose fields are classified
MaxFields == 2      \* fields of a workbook model given to the row builder
MaxUsage == 2       \* usage pairs of a workbook model given to the row builder
MaxFiles == 3       \* files found under the input directory

(***************************************************************************)
(* Generic helpers.                                                        *)
(***************************************************************************)
SeqsUpTo(S, n) == UNION {[1..k -> S] : k \in 0..n}

RECURSIVE Concat(_)
Concat(ss) == IF ss = <<>> THEN <<>> ELSE Head(ss) \o Concat(Tail(ss))

\* s has the sequence p at position i
HasAt(s, i, p) ==
    /\ i + Len(p) - 1 <= Len(s)
    /\ \A k \in 1..Len(p) : s[i + k - 1] = p[k]

(***************************************************************************)
(* clean_calculation_formula: the three reference syntaxes.                *)
(***************************************************************************)
Digits == {"0", "1", "2", "3", "4", "5", "6", "7", "8", "9"}

CalcLit == <<"C", "a", "l", "c", "u", "l", "a", "t", "i", "o", "n", "_">>

\* r'\d{10,}' in direct_id_pattern
MinDirectDigits == 10

\* r'\[Calculation_(\d+)\]'
calc_pattern == [prefix |-> <<"[">> \o CalcLit, min |-> 1, close |-> "]"]
\* r'@\{(\d+)\}'
at_pattern == [prefix |-> <<"@", "{">>, min |-> 1, close |-> "}"]
\* r'\[(\d{10,})\]'
direct_id_pattern == [prefix |-> <<"[">>, min |-> MinDirectDigits, close |-> "]"]

\* first position at or after j that holds no digit (Len(s)+1 when none):
\* where a greedy \d+ started at j stops
DigitRunEnd(s, j) ==
    IF \E k \in j..Len(s) : s[k] \notin Digits
    THEN CHOOSE k \in j..Len(s) :
            /\ s[k] \notin Digits
            /\ \A m \in j..(k - 1) : s[m] \in Digits
    ELSE Len(s) + 1

\* index of the last character of the match of pat that starts at i, 0 if
\* pat does not match at i.  The digit run is followed by a non-digit, so
\* the greedy run is the only candidate.
MatchEnd(s, i, pat) ==
    IF ~HasAt(s, i, pat.prefix) THEN 0
    ELSE LET j == i + Len(pat.prefix)
             e == DigitRunEnd(s, j)
         IN  IF e - j >= pat.min /\ e <= Len(s) /\ s[e] = pat.close
             THEN e ELSE 0

\* match.group(1) of the match of pat at i
MatchId(s, i, pat) ==
    SubSeq(s, i + Len(pat.prefix), MatchEnd(s, i, pat) - 1)

\* the replacement callbacks replace_calc_id / replace_at_id /
\* replace_direct_id: f"[{calc_map[calc_id]}]"
Replacement(name) == <<"[">> \o name \o <<"]">>

\* re.sub(pattern, callback, s) from position i on: leftmost matches, not
\* overlapping, the text between them copied; n counts the callbacks that
\* found their id in the map
RECURSIVE SubFrom(_, _, _, _)
SubFrom(s, i, pat, m) ==
    IF i > Len(s) THEN [out |-> <<>>, n |-> 0]
    ELSE LET e == MatchEnd(s, i, pat)
         IN  IF e = 0
             THEN LET r == SubFrom(s, i + 1, pat, m)
                  IN  [out |-> <<s[i]>> \o r.out, n |-> r.n]
             ELSE LET r  == SubFrom(s, e + 1, pat, m)
                      id == MatchId(s, i, pat)
                  IN  IF id \in DOMAIN m
                      THEN [out |-> Replacement(m[id]) \o r.out, n |-> r.n + 1]
                      ELSE [out |-> SubSeq(s, i, e) \o r.out, n |-> r.n]

ReSub(pat, m, s) == SubFrom(s, 1, pat, m)

\* re.search(r'\[Calculation_\d+\]|\[\d{10,}\]|@\{\d+\}', s)
HasReference(s) ==
    \E i \in 1..Len(s) :
        \/ MatchEnd(s, i, calc_pattern) # 0
        \/ MatchEnd(s, i, direct_id_pattern) # 0
        \/ MatchEnd(s, i, at_pattern) # 0

\* a variant that forgets the "no replacement was made" test of the first check
ResolveStatusNoCount(n, raw, out) ==
    LET s1 == IF HasReference(raw)
              THEN "Unresolved References" ELSE "Success"
    IN  IF n > 0 /\ HasReference(out) THEN "Partially Resolved" ELSE s1

\* the two status checks after the three passes
ResolveStatus(n, raw, out) ==
    LET s1 == IF n = 0 /\ HasReference(raw)
              THEN "Unresolved References" ELSE "Success"
    IN  IF n > 0 /\ HasReference(out) THEN "Partially Resolved" ELSE s1

\* a variant without the third pass (direct numeric references)
clean_without_direct_pass(raw, m) ==
    IF raw = <<>>
    THEN [cleaned |-> raw, status |-> "No Formula", n |-> 0]
    ELSE LET p1 == ReSub(calc_pattern, m, raw)
             p2 == ReSub(at_pattern, m, p1.out)
             n  == p1.n + p2.n
         IN  [cleaned |-> p2.out,
              status  |-> ResolveStatus(n, raw, p2.out),
              n       |-> n]

\* clean_calculation_formula(raw_formula, calc_map).  The except branch is
\* not modelled: with a dict of strings no statement of the try block raises.
clean_calculation_formula(raw, m) ==
    IF raw = <<>>
    THEN [cleaned |-> raw, status |-> "No Formula", n |-> 0]
    ELSE LET p1 == ReSub(calc_pattern, m, raw)
             p2 == ReSub(at_pattern, m, p1.out)
             p3 == ReSub(direct_id_pattern, m, p2.out)
             n  == p1.n + p2.n + p3.n
         IN  [cleaned |-> p3.out,
              status  |-> ResolveStatus(n, raw, p3.out),
              n       |-> n]

(***************************************************************************)
(* The document tree.  An element's attributes are a function from the     *)
(* names of the attributes it carries to their values, so that an absent   *)
(* attribute and an empty one differ, as they do for Element.get.          *)
(*   column      : [attrs, calcs, text]  calcs = its descendant            *)
(*                 calculation elements (their attributes), in order       *)
(*   top element : [tag, attrs, conns, columns, deps, encs]                *)
(*     datasource  : conns = its descendant connection elements,           *)
(*                   columns = its descendant column elements              *)
(*     calculation : a calculation element outside any column              *)
(*     worksheet   : deps = its datasource-dependencies elements           *)
(*                   ([attrs, columns]), encs = its encoding columns       *)
(* The root is the sequence of its top elements in document order.         *)
(***************************************************************************)
\* Element.get(key, default)
Get(attrs, key, default) == IF key \in DOMAIN attrs THEN attrs[key] ELSE default

Column(attrs, calcs, text) == [attrs |-> attrs, calcs |-> calcs, text |-> text]

Datasource(attrs, conns, columns) ==
    [tag |-> "datasource", attrs |-> attrs, conns |-> conns,
     columns |-> columns, deps |-> <<>>, encs |-> <<>>]

Calculation(attrs) ==
    [tag |-> "calculation", attrs |-> attrs, conns |-> <<>>,
     columns |-> <<>>, deps |-> <<>>, encs |-> <<>>]

Worksheet(attrs, deps, encs) ==
    [tag |-> "worksheet", attrs |-> attrs, conns |-> <<>>,
     columns |-> <<>>, deps |-> deps, encs |-> encs]

\* the column elements of a sequence of datasource-dependencies elements
DepColumns(deps) == Concat([k \in 1..Len(deps) |-> deps[k].columns])

\* the calculation elements below a sequence of columns
ColumnCalcs(cols) == Concat([k \in 1..Len(cols) |-> cols[k].calcs])

\* elem.findall('.//column') for a top element
ElemColumns(e) ==
    IF e.tag = "datasource" THEN e.columns
    ELSE IF e.tag = "worksheet" THEN DepColumns(e.deps) \o e.encs
    ELSE <<>>

\* elem.findall('.//calculation') for a top element, itself included
ElemCalcs(e) ==
    IF e.tag = "calculation" THEN <<e.attrs>>
    ELSE ColumnCalcs(ElemColumns(e))

\* root.findall('.//column'), root.findall('.//calculation'),
\* root.findall('.//datasource'), root.findall('.//worksheet')
AllColumns(tree) == Concat([k \in 1..Len(tree) |-> ElemColumns(tree[k])])
AllCalculations(tree) == Concat([k \in 1..Len(tree) |-> ElemCalcs(tree[k])])
AllDatasources(tree) == SelectSeq(tree, LAMBDA e : e.tag = "datasource")
AllWorksheets(tree) == SelectSeq(tree, LAMBDA e : e.tag = "worksheet")

\* d[k] = v for a dict d
Put(d, k, v) == [x \in DOMAIN d \cup {k} |-> IF x = k THEN v ELSE d[x]]

EmptyDict == [x \in {} |-> x]

(***************************************************************************)
(* extract_all_data, first pass: calculation id -> caption.                *)
(***************************************************************************)
\* body of the loop over the columns
MapColumnCalc(m, col) ==
    IF col.calcs = <<>> THEN m
    ELSE LET calc_id == Get(col.calcs[1], "id", <<>>)
             caption == Get(col.attrs, "caption", Get(col.attrs, "name", <<>>))
         IN  IF calc_id # <<>> /\ caption # <<>> THEN Put(m, calc_id, caption) ELSE m

\* body of the loop over the calculation elements
MapStandaloneCalc(m, calc) ==
    LET calc_id == Get(calc, "id", <<>>)
        caption == Get(calc, "caption", Get(calc, "name", <<>>))
    IN  IF calc_id # <<>> /\ caption # <<>> THEN Put(m, calc_id, caption) ELSE m

\* the loop over the columns
RECURSIVE MapColumnCalcs(_, _)
MapColumnCalcs(m, cols) ==
    IF cols = <<>> THEN m
    ELSE MapColumnCalcs(MapColumnCalc(m, Head(cols)), Tail(cols))

\* the loop over the calculation elements
RECURSIVE MapStandaloneCalcs(_, _)
MapStandaloneCalcs(m, calcs) ==
    IF calcs = <<>> THEN m
    ELSE MapStandaloneCalcs(MapStandaloneCalc(m, Head(calcs)), Tail(calcs))

CalcIdPass(tree) ==
    MapStandaloneCalcs(MapColumnCalcs(EmptyDict, AllColumns(tree)),
                       AllCalculations(tree))

(***************************************************************************)
(* extract_all_data: the datasource pass (connections and fields).         *)
(***************************************************************************)
\* conn.get('server', conn.get('filename', conn.get('database', '')))
ConnName(conn) ==
    Get(conn, "server", Get(conn, "filename", Get(conn, "database", "")))

\* the Connection recorded for a datasource whose first connection is conn
ConnectionOf(ds, conn) ==
    [name  |-> ConnName(conn),
     alias |-> Get(ds.attrs, "caption", Get(ds.attrs, "name", "")),
     class |-> Get(conn, "class", "")]

Tableau == <<"t", "a", "b", "l", "e", "a", "u">>

\* sub in s
Contains(s, sub) == \E i \in 1..(Len(s) + 1) : HasAt(s, i, sub)

\* a variant that looks at the role before the nested calculation
FieldTypeRoleFirst(col) ==
    IF Get(col.attrs, "role", "") = "measure"
    THEN IF Get(col.attrs, "aggregation", "") # ""
         THEN "Aggregated Measure" ELSE "Measure"
    ELSE IF col.calcs # <<>>
    THEN IF Contains(Get(col.calcs[1], "class", <<>>), Tableau)
         THEN "Table Calculation" ELSE "Calculated Field"
    ELSE "Dimension"

\* field_type of a datasource column
FieldType(col) ==
    IF col.calcs # <<>>
    THEN IF Contains(Get(col.calcs[1], "class", <<>>), Tableau)
         THEN "Table Calculation" ELSE "Calculated Field"
    ELSE IF "role" \in DOMAIN col.attrs /\ col.attrs["role"] = "measure"
    THEN IF Get(col.attrs, "aggregation", "") # ""
         THEN "Aggregated Measure" ELSE "Measure"
    ELSE "Dimension"

\* the field appended for column col of datasource ds_name
FieldOfColumn(ds_name, col) ==
    [name       |-> Get(col.attrs, "name", <<>>),
     caption    |-> Get(col.attrs, "caption", Get(col.attrs, "name", <<>>)),
     datatype   |-> Get(col.attrs, "datatype", ""),
     role       |-> Get(col.attrs, "role", ""),
     datasource |-> ds_name,
     formula    |-> IF col.calcs # <<>> THEN Get(col.calcs[1], "formula", <<>>) ELSE <<>>,
     field_type |-> FieldType(col)]

\* a variant that appends the field without writing the calculation map again
ExtractColumnFieldOnly(ds_name, d, col) ==
    [d EXCEPT !.fields = Append(@, FieldOfColumn(ds_name, col))]

\* body of the loop over the columns of one datasource
ExtractColumn(ds_name, d, col) ==
    LET field == FieldOfColumn(ds_name, col)
        calc_id == IF col.calcs # <<>> THEN Get(col.calcs[1], "id", <<>>) ELSE <<>>
    IN  [d EXCEPT
           !.calculations =
               IF calc_id # <<>> /\ field.caption # <<>>
               THEN Put(@, calc_id, field.caption) ELSE @,
           !.fields = Append(@, field)]

RECURSIVE ExtractColumns(_, _, _)
ExtractColumns(ds_name, d, cols) ==
    IF cols = <<>> THEN d
    ELSE ExtractColumns(ds_name, ExtractColumn(ds_name, d, Head(cols)), Tail(cols))

\* body of the loop over the datasources
ExtractDatasource(d, ds) ==
    LET ds_name == Get(ds.attrs, "name", "")
        d1 == IF ds.conns # <<>>
              THEN [d EXCEPT !.connections =
                        Put(@, ds_name, ConnectionOf(ds, ds.conns[1]))]
              ELSE d
    IN  ExtractColumns(ds_name, d1, ds.columns)

RECURSIVE DatasourceLoop(_, _)
DatasourceLoop(d, dss) ==
    IF dss = <<>> THEN d
    ELSE DatasourceLoop(ExtractDatasource(d, Head(dss)), Tail(dss))

DatasourcePass(d, tree) == DatasourceLoop(d, AllDatasources(tree))

(***************************************************************************)
(* extract_all_data: standalone calculations.                              *)
(***************************************************************************)
\* a variant that appends every named calculation, whatever the field list holds
ExtractStandaloneNoLookup(d, calc) ==
    LET calc_name == Get(calc, "name", <<>>)
    IN  IF calc_name # <<>>
        THEN [d EXCEPT !.fields = Append(@,
                 [name       |-> calc_name,
                  caption    |-> Get(calc, "caption", calc_name),
                  datatype   |-> Get(calc, "datatype", ""),
                  role       |-> Get(calc, "role", ""),
                  datasource |-> "",
                  formula    |-> Get(calc, "formula", <<>>),
                  field_type |-> "Calculated Field"])]
        ELSE d

\* body of the loop over the calculation elements
ExtractStandalone(d, calc) ==
    LET calc_name == Get(calc, "name", <<>>)
    IN  IF /\ calc_name # <<>>
           /\ ~\E k \in 1..Len(d.fields) : d.fields[k].name = calc_name
        THEN [d EXCEPT !.fields = Append(@,
                 [name       |-> calc_name,
                  caption    |-> Get(calc, "caption", calc_name),
                  datatype   |-> Get(calc, "datatype", ""),
                  role       |-> Get(calc, "role", ""),
                  datasource |-> "",
                  formula    |-> Get(calc, "formula", <<>>),
                  field_type |-> "Calculated Field"])]
        ELSE d

RECURSIVE StandaloneLoop(_, _)
StandaloneLoop(d, calcs) ==
    IF calcs = <<>> THEN d
    ELSE StandaloneLoop(ExtractStandalone(d, Head(calcs)), Tail(calcs))

StandalonePass(d, tree) == StandaloneLoop(d, AllCalculations(tree))

(***************************************************************************)
(* extract_all_data: field usage in worksheets.                            *)
(***************************************************************************)
\* usage entries of one datasource-dependencies element
DepUsage(ws_name, dep) ==
    LET named == SelectSeq(dep.columns, LAMBDA c : Get(c.attrs, "name", <<>>) # <<>>)
    IN  [k \in 1..Len(named) |->
            [field      |-> Get(named[k].attrs, "name", <<>>),
             worksheet  |-> ws_name,
             datasource |-> Get(dep.attrs, "datasource", "")]]

\* enc_col.text or enc_col.get('column', '')
FieldRef(enc_col) ==
    IF enc_col.text # <<>> THEN enc_col.text ELSE Get(enc_col.attrs, "column", <<>>)

\* remove brackets if present
StripBrackets(s) ==
    IF Len(s) >= 1 /\ s[1] = "[" /\ s[Len(s)] = "]"
    THEN SubSeq(s, 2, Len(s) - 1) ELSE s

\* usage entries of the encoding columns of one worksheet
EncUsage(ws_name, encs) ==
    LET refd == SelectSeq(encs, LAMBDA c : FieldRef(c) # <<>>)
    IN  [k \in 1..Len(refd) |->
            [field      |-> StripBrackets(FieldRef(refd[k])),
             worksheet  |-> ws_name,
             datasource |-> ""]]

\* usage entries of one worksheet: dependencies, then encodings
WorksheetUsage(ws) ==
    LET ws_name == Get(ws.attrs, "name", "")
    IN  Concat([k \in 1..Len(ws.deps) |-> DepUsage(ws_name, ws.deps[k])])
          \o EncUsage(ws_name, ws.encs)

\* data['field_worksheet_usage'] before the duplicates are removed
DiscoveredUsage(tree) ==
    LET wss == AllWorksheets(tree)
    IN  Concat([k \in 1..Len(wss) |-> WorksheetUsage(wss[k])])

UsageKey(usage) == <<usage.field, usage.worksheet>>

\* a variant that keeps the last entry of each key instead of the first
RECURSIVE KeepLast(_)
KeepLast(usages) ==
    IF usages = <<>> THEN <<>>
    ELSE IF \E k \in 2..Len(usages) : UsageKey(usages[k]) = UsageKey(Head(usages))
         THEN KeepLast(Tail(usages))
         ELSE <<Head(usages)>> \o KeepLast(Tail(usages))

RemoveDuplicatesKeepLast(usages) == KeepLast(usages)

\* the loop with the `seen` set: the first entry of each key, in order
RECURSIVE Unique(_, _, _)
Unique(usages, seen, unique_usage) ==
    IF usages = <<>> THEN unique_usage
    ELSE LET key == UsageKey(Head(usages))
         IN  IF key \notin seen
             THEN Unique(Tail(usages), seen \cup {key}, Append(unique_usage, Head(usages)))
             ELSE Unique(Tail(usages), seen, unique_usage)

RemoveDuplicates(usages) == Unique(usages, {}, <<>>)

UsagePass(d, tree) ==
    [d EXCEPT !.field_worksheet_usage = RemoveDuplicates(DiscoveredUsage(tree))]

\* data as extract_all_data creates it
EmptyData ==
    [fields |-> <<>>, calculations |-> EmptyDict,
     field_worksheet_usage |-> <<>>, connections |-> EmptyDict]

\* extract_all_data(tree, filename)
extract_all_data(tree) ==
    UsagePass(
        StandalonePass(
            DatasourcePass([EmptyData EXCEPT !.calculations = CalcIdPass(tree)], tree),
            tree),
        tree)

(***************************************************************************)
(* build_final_output.                                                     *)
(***************************************************************************)
\* fieldnames of write_final_csv: the keys of an output row
fieldnames ==
    <<"Column ID", "Column Name", "Column Alias", "Field Type",
      "Connection Name", "Connection Alias", "datatype", "role",
      "Calculation Formula", "Original Calculation", "Calc Clean Status",
      "Field Used in Worksheets", "Worksheet Name", "File Name">>

RowKeys == {fieldnames[k] : k \in 1..Len(fieldnames)}

\* a variant that drops the [''] default of a field without usage
FieldWorksheetsNoDefault(usages, field_name) ==
    LET mine == SelectSeq(usages, LAMBDA u : u.field = field_name)
    IN  [k \in 1..Len(mine) |-> mine[k].worksheet]

\* usage_by_field.get(field_name, ['']): the worksheets of the usage entries
\* of that field name, in order.  A list of usage_by_field is never empty,
\* so the later `if not worksheets` changes nothing.
FieldWorksheets(usages, field_name) ==
    LET mine == SelectSeq(usages, LAMBDA u : u.field = field_name)
    IN  IF mine = <<>> THEN <<"">>
        ELSE [k \in 1..Len(mine) |-> mine[k].worksheet]

\* 'Yes' if worksheet else 'No'
FieldUsed(worksheet) == IF worksheet # "" THEN "Yes" ELSE "No"

\* what the loop over the fields computes before the loop over the worksheets
FieldContext(d, field) ==
    LET known == field.datasource \in DOMAIN d.connections
        res == IF field.formula # <<>>
               THEN clean_calculation_formula(field.formula, d.calculations)
               ELSE [cleaned |-> <<>>, status |-> "No Calculation", n |-> 0]
    IN  [conn_name  |-> IF known THEN d.connections[field.datasource].name ELSE "",
         conn_alias |-> IF known THEN d.connections[field.datasource].alias
                        ELSE field.datasource,
         cleaned_formula |-> res.cleaned,
         clean_status    |-> res.status]

\* the row appended for one worksheet of one field
Row(id, filename, field, ctx, worksheet) ==
        [c \in RowKeys |->
            CASE c = "Column ID"                -> id
              [] c = "Column Name"              -> field.name
              [] c = "Column Alias"             -> field.caption
              [] c = "Field Type"               -> field.field_type
              [] c = "Connection Name"          -> ctx.conn_name
              [] c = "Connection Alias"         -> ctx.conn_alias
              [] c = "datatype"                 -> field.datatype
              [] c = "role"                     -> field.role
              [] c = "Calculation Formula"      -> ctx.cleaned_formula
              [] c = "Original Calculation"     -> field.formula
              [] c = "Calc Clean Status"        -> ctx.clean_status
              [] c = "Field Used in Worksheets" -> FieldUsed(worksheet)
              [] c = "Worksheet Name"           -> worksheet
              [] c = "File Name"                -> filename]

\* a variant that increments column_id after the worksheet loop, not in it
FieldRowsOneId(first_id, filename, d, field) ==
    LET worksheets == FieldWorksheets(d.field_worksheet_usage, field.name)
        ctx == FieldContext(d, field)
    IN  [k \in 1..Len(worksheets) |-> Row(first_id, filename, field, ctx, worksheets[k])]

\* the rows of the loop over the worksheets of one field, column_id being
\* first_id when the loop starts
FieldRows(first_id, filename, d, field) ==
    LET worksheets == FieldWorksheets(d.field_worksheet_usage, field.name)
        ctx == FieldContext(d, field)
    IN  [k \in 1..Len(worksheets) |->
            Row(first_id + (k - 1), filename, field, ctx, worksheets[k])]

(***************************************************************************)
(* process_all_files.                                                      *)
(***************************************************************************)
\* f.lower()
Lower(ext) ==
    IF ext = ".TWB" THEN ".twb" ELSE IF ext = ".TWBX" THEN ".twbx" ELSE ext

\* f.lower().endswith(('.twb', '.twbx'))
IsTableauFile(file) == Lower(file.ext) \in {".twb", ".twbx"}

\* os.path.basename(path): the directory is dropped
Basename(file) == <<file.stem, file.ext>>

\* os.path.join(root_dir, f)
FullPath(file) == <<file.dir, file.stem, file.ext>>

\* the try block raises before the assignment to all_workbook_data: the
\* archive is corrupt or holds no .twb member (StopIteration), or the markup
\* is malformed (ParseError); all are subclasses of Exception
LoadRaises(file) == file.content.raises

\* all_workbook_data[filename] = data: an existing key keeps its place
DictSet(items, key, value) ==
    IF \E k \in 1..Len(items) : items[k].filename = key
    THEN [k \in 1..Len(items) |->
            IF items[k].filename = key THEN [filename |-> key, data |-> value]
            ELSE items[k]]
    ELSE Append(items, [filename |-> key, data |-> value])

(***************************************************************************)
(* Values of the batch variables while another function is examined.       *)
(***************************************************************************)
BatchIdle ==
    /\ files = <<>>
    /\ fi = 1
    /\ log = <<>>
    /\ all_workbook_data = <<>>
    /\ wb = 1
    /\ fld = 1
    /\ column_id = 1
    /\ final_rows = <<>>
    /\ written = <<>>

(***************************************************************************)
(* Inputs of the formula resolver.                                         *)
(***************************************************************************)
LongId == <<"9", "9", "9", "9", "9", "9", "9", "9", "9", "9">>

Id1 == <<"1">>
Id2 == <<"2">>

NameP     == <<"P">>
NameCalc2 == CalcLit \o Id2          \* a display name spelled like an id token
NameLong  == LongId                  \* a display name that is a long number

FormulaPieces ==
    { <<"[">> \o CalcLit \o Id1 \o <<"]">>,
      <<"[">> \o CalcLit \o Id2 \o <<"]">>,
      <<"@", "{">> \o Id1 \o <<"}">>,
      <<"[">> \o LongId \o <<"]">>,
      <<"[">>,
      <<"1", "]">> }

Formulas == {Concat(ps) : ps \in SeqsUpTo(FormulaPieces, MaxPieces)}

CalcIds == {Id1, Id2, LongId}
DisplayNames == {NameP, NameCalc2, NameLong}

CalcMaps == UNION {[D -> DisplayNames] : D \in SUBSET CalcIds}

(***************************************************************************)
(* Specification of the formula resolver: the function is applied to an    *)
(* input, then to its own result.                                          *)
(***************************************************************************)
InitClean ==
    /\ pc = "clean"
    /\ raw_formula \in Formulas
    /\ calc_map \in CalcMaps
    /\ cleaned = <<>>
    /\ status = ""
    /\ replacements_made = 0
    /\ recleaned = [cleaned |-> <<>>, status |-> ""]
    /\ root = <<>>
    /\ data = EmptyData
    /\ BatchIdle

CleanFormula ==
    /\ pc = "clean"
    /\ LET r == clean_calculation_formula(raw_formula, calc_map)
       IN  /\ cleaned' = r.cleaned
           /\ status' = r.status
           /\ replacements_made' = r.n
    /\ pc' = "cleaned"
    /\ UNCHANGED <<raw_formula, calc_map, recleaned, extractVars, batchVars>>

CleanAgain ==
    /\ pc = "cleaned"
    /\ LET r == clean_calculation_formula(cleaned, calc_map)
       IN  recleaned' = [cleaned |-> r.cleaned, status |-> r.status]
    /\ pc' = "recleaned"
    /\ UNCHANGED <<raw_formula, calc_map, cleaned, status, replacements_made, extractVars, batchVars>>

NextClean == CleanFormula \/ CleanAgain

SpecClean == InitClean /\ [][NextClean]_vars

(***************************************************************************)
(* Documents given to the extractor.                                       *)
(***************************************************************************)
NameA == <<"a">>
NameB == <<"b">>
CaptionA == <<"A">>
CaptionB == <<"B">>
RefA == <<"[", "a", "]">>
FormulaRef1 == <<"@", "{">> \o Id1 \o <<"}">>

\* functions from a subset of the keys to the values allowed for each key
Attrs(keys, Values(_)) ==
    UNION {{f \in [D -> UNION {Values(k) : k \in D}] : \A k \in D : f[k] \in Values(k)}
             : D \in SUBSET keys}

\* f extended by g
Merge(f, g) == [x \in DOMAIN f \cup DOMAIN g |-> IF x \in DOMAIN g THEN g[x] ELSE f[x]]

\* connection elements: each of server, filename, database absent, empty or set
ConnValues(k) ==
    IF k = "server" THEN {"", "srv"}
    ELSE IF k = "filename" THEN {"", "data.csv"}
    ELSE {"", "db"}
ConnElems ==
    {Merge([class |-> "textscan"], f) :
        f \in Attrs({"server", "filename", "database"}, ConnValues)}

DsCaptionValues(k) == {"", "Sales DS"}
DsAttrs == {Merge([name |-> "d1"], f) : f \in Attrs({"caption"}, DsCaptionValues)}

\* documents of one datasource with or without a connection
ConnDocs ==
    {<<Datasource(a, conns, <<>>)>> :
        a \in DsAttrs, conns \in {<<>>} \cup {<<c>> : c \in ConnElems}}

\* columns to classify: role and aggregation absent, empty or set; no nested
\* calculation, or one whose class is absent, names a table calculation or not
ColValues(k) ==
    IF k = "role" THEN {"measure", "dimension"} ELSE {"", "Sum"}
CalcClassValues(k) == {Tableau, <<"x">>}
FieldColumns ==
    {Column(Merge([name |-> NameA], a), calcs, <<>>) :
        a \in Attrs({"role", "aggregation"}, ColValues),
        calcs \in {<<>>} \cup
                  {<<Merge([formula |-> FormulaRef1], c)>> :
                      c \in Attrs({"class"}, CalcClassValues)}}

FieldDocs ==
    {<<Datasource([name |-> "d1"], <<>>, cols)>> :
        cols \in SeqsUpTo(FieldColumns, MaxCols) \ {<<>>}}

\* calculation declarations: the name and caption of the declaring element
DeclNames ==
    {[name |-> NameA, caption |-> CaptionA], [name |-> NameA], [name |-> NameB, caption |-> CaptionB]}

CaptionN == <<"N">>

\* a calculation nested in a datasource column, a calculation element outside
\* any column, a calculation nested in a dependency column of a worksheet,
\* and one there that carries a caption of its own
DeclElems ==
    UNION {
      { Datasource([name |-> "d1"], <<>>,
                   <<Column(n, <<[id |-> i, formula |-> FormulaRef1]>>, <<>>)>>),
        Calculation(Merge([id |-> i, formula |-> FormulaRef1], n)),
        Worksheet([name |-> "W1"],
                  <<[attrs |-> [datasource |-> "d1"],
                     columns |-> <<Column(n, <<[id |-> i]>>, <<>>)>>]>>,
                  <<>>),
        Worksheet([name |-> "W2"],
                  <<[attrs |-> [datasource |-> "d1"],
                     columns |-> <<Column(n, <<[id |-> i, caption |-> CaptionN]>>, <<>>)>>]>>,
                  <<>>) }
      : n \in DeclNames, i \in {Id1, Id2} }

CalcDocs == SeqsUpTo(DeclElems, MaxDecls)

\* worksheets: dependency columns by name, encoding columns by text or by
\* column attribute
DepCols == {Column([name |-> NameA], <<>>, <<>>), Column([name |-> NameB], <<>>, <<>>)}
EncCols == {Column(EmptyDict, <<>>, RefA), Column([column |-> NameB], <<>>, <<>>)}
Worksheets ==
    {Worksheet([name |-> w],
               <<[attrs |-> [datasource |-> "d1"], columns |-> dc]>>,
               ec) :
        w \in {"W1", "W2"}, dc \in SeqsUpTo(DepCols, MaxRefs), ec \in SeqsUpTo(EncCols, MaxRefs)}

\* a second worksheet that repeats pairs of the first or adds its own
SecondWorksheets ==
    {Worksheet([name |-> w], <<>>, <<Column(EmptyDict, <<>>, NameA)>>) : w \in {"W1", "W2"}}

UsageDocs ==
    {<<ws>> : ws \in Worksheets} \cup
    {<<ws, w2>> : ws \in Worksheets, w2 \in SecondWorksheets}

Docs == ConnDocs \cup FieldDocs \cup CalcDocs \cup UsageDocs

(***************************************************************************)
(* Specification of the extractor: extract_all_data runs its passes over   *)
(* one document.                                                           *)
(***************************************************************************)
InitExtract ==
    /\ pc = "calc_ids"
    /\ root \in Docs
    /\ data = EmptyData
    /\ raw_formula = <<>>
    /\ calc_map = EmptyDict
    /\ cleaned = <<>>
    /\ status = ""
    /\ replacements_made = 0
    /\ recleaned = [cleaned |-> <<>>, status |-> ""]
    /\ BatchIdle

BuildCalcMap ==
    /\ pc = "calc_ids"
    /\ data' = [data EXCEPT !.calculations = CalcIdPass(root)]
    /\ pc' = "datasources"
    /\ UNCHANGED <<root, cleanVars, batchVars>>

ExtractDatasources ==
    /\ pc = "datasources"
    /\ data' = DatasourcePass(data, root)
    /\ pc' = "standalone"
    /\ UNCHANGED <<root, cleanVars, batchVars>>

ExtractStandaloneCalcs ==
    /\ pc = "standalone"
    /\ data' = StandalonePass(data, root)
    /\ pc' = "usage"
    /\ UNCHANGED <<root, cleanVars, batchVars>>

ExtractUsage ==
    /\ pc = "usage"
    /\ data' = UsagePass(data, root)
    /\ pc' = "extracted"
    /\ UNCHANGED <<root, cleanVars, batchVars>>

NextExtract ==
    BuildCalcMap \/ ExtractDatasources \/ ExtractStandaloneCalcs \/ ExtractUsage

SpecExtract == InitExtract /\ [][NextExtract]_vars

(***************************************************************************)
(* build_final_output, one step for each pass of the loop over the fields. *)
(***************************************************************************)
\* the loop over the worksheets of the current field
BuildField ==
    /\ pc = "build"
    /\ wb <= Len(all_workbook_data)
    /\ fld <= Len(all_workbook_data[wb].data.fields)
    /\ LET item == all_workbook_data[wb]
           rows == FieldRows(column_id, item.filename, item.data, item.data.fields[fld])
       IN  /\ final_rows' = final_rows \o rows
           /\ column_id' = column_id + Len(rows)
    /\ fld' = fld + 1
    /\ UNCHANGED <<pc, wb, all_workbook_data, written, processVars, cleanVars, extractVars>>

\* the fields of the current workbook are done: the next workbook
BuildNextWorkbook ==
    /\ pc = "build"
    /\ wb <= Len(all_workbook_data)
    /\ fld > Len(all_workbook_data[wb].data.fields)
    /\ wb' = wb + 1
    /\ fld' = 1
    /\ UNCHANGED <<pc, column_id, final_rows, all_workbook_data, written,
                   processVars, cleanVars, extractVars>>

\* return final_rows
BuildReturn ==
    /\ pc = "build"
    /\ wb > Len(all_workbook_data)
    /\ pc' = "built"
    /\ UNCHANGED <<buildVars, all_workbook_data, written, processVars, cleanVars, extractVars>>

NextBuild == BuildField \/ BuildNextWorkbook \/ BuildReturn

(***************************************************************************)
(* Specification of the row builder: build_final_output is given a mapping *)
(* of workbook names to models.                                            *)
(***************************************************************************)
ConnSales == [name |-> "srv", alias |-> "Sales DS", class |-> "sqlserver"]

BuildField1(name, formula, ds) ==
    [name |-> name, caption |-> name, datatype |-> "string", role |-> "dimension",
     datasource |-> ds, formula |-> formula,
     field_type |-> IF formula = <<>> THEN "Dimension" ELSE "Calculated Field"]

BuildFieldSet ==
    {BuildField1(NameA, <<>>, "d1"), BuildField1(NameA, FormulaRef1, "d2"),
     BuildField1(NameB, <<>>, "d1")}

BuildUsageSet ==
    {[field |-> NameA, worksheet |-> "W1", datasource |-> "d1"],
     [field |-> NameA, worksheet |-> "W2", datasource |-> ""],
     [field |-> NameB, worksheet |-> "", datasource |-> "d1"]}

BuildModels ==
    {[fields |-> fs, calculations |-> (Id1 :> NameP),
      field_worksheet_usage |-> us, connections |-> ("d1" :> ConnSales)] :
        fs \in SeqsUpTo(BuildFieldSet, MaxFields), us \in SeqsUpTo(BuildUsageSet, MaxUsage)}

\* models of a workbook that follows another one
SecondModels ==
    {[fields |-> fs, calculations |-> EmptyDict,
      field_worksheet_usage |-> <<[field |-> NameA, worksheet |-> "W1", datasource |-> ""]>>,
      connections |-> EmptyDict] :
        fs \in {<<>>, <<BuildField1(NameA, FormulaRef1, "d1")>>,
                <<BuildField1(NameB, <<>>, "d1"), BuildField1(NameA, <<>>, "")>>}}

FileX == <<"x", ".twb">>
FileY == <<"y", ".twbx">>

BuildInputs ==
    {<<>>}
    \cup {<<[filename |-> FileX, data |-> m]>> : m \in BuildModels}
    \cup {<<[filename |-> FileX, data |-> m], [filename |-> FileY, data |-> m2]>> :
            m \in BuildModels, m2 \in SecondModels}

InitBuild ==
    /\ pc = "build"
    /\ all_workbook_data \in BuildInputs
    /\ wb = 1
    /\ fld = 1
    /\ column_id = 1
    /\ final_rows = <<>>
    /\ written = <<>>
    /\ files = <<>>
    /\ fi = 1
    /\ log = <<>>
    /\ root = <<>>
    /\ data = EmptyData
    /\ raw_formula = <<>>
    /\ calc_map = EmptyDict
    /\ cleaned = <<>>
    /\ status = ""
    /\ replacements_made = 0
    /\ recleaned = [cleaned |-> <<>>, status |-> ""]

SpecBuild == InitBuild /\ [][NextBuild]_vars

(***************************************************************************)
(* Specification of a batch run (process_files): process_all_files over    *)
(* the files of the input directory, then build_final_output, then         *)
(* write_final_csv.                                                        *)
(***************************************************************************)
\* a workbook with a connection, a calculated field and a worksheet using it
DocSales ==
    <<Datasource([name |-> "d1", caption |-> "Sales DS"],
                 <<[class |-> "sqlserver", server |-> "srv"]>>,
                 <<Column([name |-> NameA, caption |-> CaptionA],
                          <<[id |-> Id1, formula |-> FormulaRef1]>>, <<>>)>>),
      Worksheet([name |-> "W1"],
                <<[attrs |-> [datasource |-> "d1"],
                   columns |-> <<Column([name |-> NameA], <<>>, <<>>)>>]>>,
                <<>>)>>

\* a workbook with one plain column and no worksheet
DocPlain ==
    <<Datasource([name |-> "d2"], <<>>,
                 <<Column([name |-> NameB, role |-> "measure"], <<>>, <<>>)>>)>>

FileContents ==
    {[raises |-> TRUE, tree |-> <<>>],
     [raises |-> FALSE, tree |-> DocSales],
     [raises |-> FALSE, tree |-> DocPlain]}

FileSet ==
    {[dir |-> d, stem |-> n[1], ext |-> n[2], content |-> c] :
        d \in {"in", "in/sub"}, n \in {<<"x", ".twb">>, <<"y", ".TWBX">>}, c \in FileContents}
    \cup {[dir |-> "in", stem |-> "notes", ext |-> ".txt",
           content |-> [raises |-> TRUE, tree |-> <<>>]]}

\* os.walk yields every path once
FileLists ==
    {fs \in SeqsUpTo(FileSet, MaxFiles) :
        \A i, j \in 1..Len(fs) : i # j => FullPath(fs[i]) # FullPath(fs[j])}

InitProcess ==
    /\ pc = "process"
    /\ files \in FileLists
    /\ fi = 1
    /\ log = <<>>
    /\ all_workbook_data = <<>>
    /\ wb = 1
    /\ fld = 1
    /\ column_id = 1
    /\ final_rows = <<>>
    /\ written = <<>>
    /\ root = <<>>
    /\ data = EmptyData
    /\ raw_formula = <<>>
    /\ calc_map = EmptyDict
    /\ cleaned = <<>>
    /\ status = ""
    /\ replacements_made = 0
    /\ recleaned = [cleaned |-> <<>>, status |-> ""]

\* a variant without the try/except: the exception leaves the loop
ProcessFileNoTry ==
    /\ pc = "process"
    /\ fi <= Len(files)
    /\ LET f == files[fi]
       IN  IF ~IsTableauFile(f)
           THEN /\ fi' = fi + 1
                /\ UNCHANGED <<pc, all_workbook_data, log>>
           ELSE IF LoadRaises(f)
           THEN /\ pc' = "raised"
                /\ UNCHANGED <<fi, all_workbook_data, log>>
           ELSE /\ all_workbook_data' =
                      DictSet(all_workbook_data, Basename(f), extract_all_data(f.content.tree))
                /\ fi' = fi + 1
                /\ UNCHANGED <<pc, log>>
    /\ UNCHANGED <<files, buildVars, written, cleanVars, extractVars>>

\* one pass of the loop over the files
ProcessFile ==
    /\ pc = "process"
    /\ fi <= Len(files)
    /\ LET f == files[fi]
       IN  IF ~IsTableauFile(f)
           THEN UNCHANGED <<all_workbook_data, log>>
           ELSE IF LoadRaises(f)
           THEN /\ log' = Append(log, <<f.stem, f.ext>>)
                /\ UNCHANGED all_workbook_data
           ELSE /\ all_workbook_data' =
                      DictSet(all_workbook_data, Basename(f), extract_all_data(f.content.tree))
                /\ UNCHANGED log
    /\ fi' = fi + 1
    /\ UNCHANGED <<pc, files, buildVars, written, cleanVars, extractVars>>

\* return all_workbook_data, not empty: process_files goes on to
\* build_final_output (final_rows = [], column_id = 1)
ProcessReturn ==
    /\ pc = "process"
    /\ fi > Len(files)
    /\ all_workbook_data # <<>>
    /\ pc' = "build"
    /\ wb' = 1
    /\ fld' = 1
    /\ column_id' = 1
    /\ final_rows' = <<>>
    /\ UNCHANGED <<all_workbook_data, written, processVars, cleanVars, extractVars>>

\* return all_workbook_data, empty: 'No Tableau files found!'
ProcessReturnEmpty ==
    /\ pc = "process"
    /\ fi > Len(files)
    /\ all_workbook_data = <<>>
    /\ pc' = "done"
    /\ UNCHANGED <<all_workbook_data, buildVars, written, processVars, cleanVars, extractVars>>

\* write_final_csv(output_dir, final_rows)
WriteFinalCsv ==
    /\ pc = "built"
    /\ written' = final_rows
    /\ pc' = "done"
    /\ UNCHANGED <<all_workbook_data, buildVars, processVars, cleanVars, extractVars>>

Next ==
    \/ ProcessFile
    \/ ProcessReturn
    \/ ProcessReturnEmpty
    \/ NextBuild
    \/ WriteFinalCsv

Spec == InitProcess /\ [][Next]_vars

(***************************************************************************)
(* Properties of the row builder.                                          *)
(***************************************************************************)
\* position of a file name among the keys of all_workbook_data
KeyIndex(filename) ==
    CHOOSE k \in 1..Len(all_workbook_data) : all_workbook_data[k].filename = filename

\* C1: the Column ID of the i-th emitted row is i, so the ids of N rows are
\* exactly 1..N without gap or repeat; the counter runs on from one workbook
\* to the next, and the rows follow the order of the workbooks.
C1_ColumnIdsSequential ==
    pc \in {"build", "built"} =>
        /\ \A i \in 1..Len(final_rows) : final_rows[i]["Column ID"] = i
        /\ column_id = Len(final_rows) + 1
        /\ \A i, j \in 1..Len(final_rows) :
              i < j => KeyIndex(final_rows[i]["File Name"]) <= KeyIndex(final_rows[j]["File Name"])

\* two workbooks have emitted rows, one of their fields more than one row
C1_Witness ==
    /\ pc = "built"
    /\ Len(final_rows) >= 4
    /\ final_rows[1]["File Name"] # final_rows[Len(final_rows)]["File Name"]
    /\ \E i \in 1..(Len(final_rows) - 1) :
          /\ final_rows[i]["Column Name"] = final_rows[i + 1]["Column Name"]
          /\ final_rows[i]["Worksheet Name"] # final_rows[i + 1]["Worksheet Name"]

\* the step that emits the rows of the current field
IsBuildFieldStep == pc = "build" /\ pc' = "build" /\ wb' = wb /\ fld' = fld + 1

\* C4: the step of a field appends one row for each usage pair recorded for
\* its name in the workbook, in order, or one row with an empty Worksheet
\* Name when there is no such pair; in each of these rows Field Used in
\* Worksheets is "Yes" exactly when Worksheet Name is not empty, else "No";
\* the rows differ only in Worksheet Name, Field Used in Worksheets and
\* Column ID.
C4_RowsPerUsagePair ==
    [][IsBuildFieldStep =>
        LET d == all_workbook_data[wb].data
            field == d.fields[fld]
            pairs == SelectSeq(d.field_worksheet_usage, LAMBDA u : u.field = field.name)
            new == SubSeq(final_rows', Len(final_rows) + 1, Len(final_rows'))
        IN  /\ SubSeq(final_rows', 1, Len(final_rows)) = final_rows
            /\ Len(new) = IF pairs = <<>> THEN 1 ELSE Len(pairs)
            /\ pairs = <<>> => new[1]["Worksheet Name"] = ""
            /\ \A k \in 1..Len(pairs) : new[k]["Worksheet Name"] = pairs[k].worksheet
            /\ \A k \in 1..Len(new) :
                  /\ new[k]["Field Used in Worksheets"] \in {"Yes", "No"}
                  /\ new[k]["Field Used in Worksheets"] = "Yes"
                        <=> new[k]["Worksheet Name"] # ""
                  /\ new[k]["Column Name"] = field.name
            /\ \A j, k \in 1..Len(new) :
                  \A c \in RowKeys \ {"Worksheet Name", "Field Used in Worksheets", "Column ID"} :
                      new[j][c] = new[k][c]
    ]_vars

\* a field without usage pair has emitted its single unused row after a
\* field with two usage pairs has emitted two rows
C4_Witness ==
    /\ pc = "build"
    /\ Len(final_rows) = 3
    /\ final_rows[1]["Column Name"] = final_rows[2]["Column Name"]
    /\ final_rows[1]["Field Used in Worksheets"] = "Yes"
    /\ final_rows[2]["Field Used in Worksheets"] = "Yes"
    /\ final_rows[1]["Worksheet Name"] # final_rows[2]["Worksheet Name"]
    /\ final_rows[3]["Column Name"] # final_rows[1]["Column Name"]
    /\ final_rows[3]["Worksheet Name"] = ""
    /\ final_rows[3]["Field Used in Worksheets"] = "No"
    /\ \A k \in 1..Len(all_workbook_data[1].data.field_worksheet_usage) :
          all_workbook_data[1].data.field_worksheet_usage[k].field
              # final_rows[3]["Column Name"]

(***************************************************************************)
(* Properties of the batch run.                                            *)
(***************************************************************************)
FailsToLoad(file) == IsTableauFile(file) /\ LoadRaises(file)
Loads(file) == IsTableauFile(file) /\ ~LoadRaises(file)

Keys == {all_workbook_data[k].filename : k \in 1..Len(all_workbook_data)}

\* C6: a file that fails to load is skipped and nothing else: the loop goes
\* on to the next file with the accumulated models unchanged and the name
\* logged; once the function has returned every file was visited, every
\* file that loads has an entry under its name, and the batch goes on to
\* build and write whenever a model was accumulated.
C6_FailureSkipsOnlyThatFile ==
    /\ [][(pc = "process" /\ fi <= Len(files) /\ FailsToLoad(files[fi])) =>
            /\ pc' = "process"
            /\ fi' = fi + 1
            /\ all_workbook_data' = all_workbook_data
            /\ log' = Append(log, <<files[fi].stem, files[fi].ext>>)]_vars
    /\ [](pc # "process" =>
            /\ fi = Len(files) + 1
            /\ \A i \in 1..Len(files) : Loads(files[i]) => Basename(files[i]) \in Keys
            /\ Keys \subseteq {Basename(files[i]) : i \in {j \in 1..Len(files) : Loads(files[j])}}
            /\ Len(log) = Cardinality({i \in 1..Len(files) : FailsToLoad(files[i])}))
    /\ [](pc = "done" => (written = final_rows /\ (all_workbook_data # <<>> => wb > Len(all_workbook_data))))

\* a batch whose first file failed and whose later file was extracted,
\* built and written
C6_Witness ==
    /\ pc = "done"
    /\ Len(files) >= 2
    /\ FailsToLoad(files[1])
    /\ Loads(files[2])
    /\ log # <<>>
    /\ written # <<>>
    /\ Basename(files[2]) \in Keys

\* C9: after the batch the mapping holds one entry for each file that was
\* extracted without error, with that file's model.
C9_EveryModelKept ==
    pc # "process" =>
        /\ Len(all_workbook_data) = Cardinality({i \in 1..Len(files) : Loads(files[i])})
        /\ \A i \in 1..Len(files) :
              Loads(files[i]) =>
                \E k \in 1..Len(all_workbook_data) :
                    /\ all_workbook_data[k].filename = Basename(files[i])
                    /\ all_workbook_data[k].data = extract_all_data(files[i].content.tree)

(***************************************************************************)
(* Properties of the extractor.                                            *)
(***************************************************************************)
\* the columns of the datasources, in the order their fields are appended
DsColumns == Concat([k \in 1..Len(AllDatasources(root)) |-> AllDatasources(root)[k].columns])

\* C5: the returned usage list holds no (field, worksheet) pair twice, is as
\* long as the number of distinct pairs discovered in dependency columns and
\* encoding references together, and keeps the first discovered entry of each
\* pair, in discovery order.
C5_UsageDeduplicated ==
    pc = "extracted" =>
        LET U == data.field_worksheet_usage
            D == DiscoveredUsage(root)
            IsFirst(i) == \A j \in 1..(i - 1) : UsageKey(D[j]) # UsageKey(D[i])
        IN  /\ \A i, j \in 1..Len(U) : i < j => UsageKey(U[i]) # UsageKey(U[j])
            /\ Len(U) = Cardinality({UsageKey(D[i]) : i \in 1..Len(D)})
            /\ \A k \in 1..Len(U) : \E i \in 1..Len(D) :
                  /\ IsFirst(i)
                  /\ U[k] = D[i]
                  /\ Cardinality({j \in 1..(i - 1) : IsFirst(j)}) = k - 1

\* a pair found in a dependency column and again in an encoding reference
C5_Witness ==
    /\ pc = "extracted"
    /\ LET D == DiscoveredUsage(root)
       IN  /\ Len(data.field_worksheet_usage) < Len(D)
           /\ \E i, j \in 1..Len(D) :
                 /\ i < j
                 /\ UsageKey(D[i]) = UsageKey(D[j])
                 /\ D[i].datasource # D[j].datasource
                 /\ \E k \in 1..Len(data.field_worksheet_usage) :
                       data.field_worksheet_usage[k] = D[i]

\* display name a declaring element offers: caption, else name
DeclName(attrs) == Get(attrs, "caption", Get(attrs, "name", <<>>))

\* declarations [id, name] made by a sequence of columns (the id of the first
\* nested calculation, the display name of the column)
ColumnDecls(cols) ==
    LET withId == SelectSeq(cols, LAMBDA c :
                      /\ c.calcs # <<>>
                      /\ Get(c.calcs[1], "id", <<>>) # <<>>
                      /\ DeclName(c.attrs) # <<>>)
    IN  [k \in 1..Len(withId) |->
            [id |-> withId[k].calcs[1]["id"], name |-> DeclName(withId[k].attrs)]]

\* declarations made by calculation elements that carry their own name
CalcDecls(calcs) ==
    LET withId == SelectSeq(calcs, LAMBDA c :
                      Get(c, "id", <<>>) # <<>> /\ DeclName(c) # <<>>)
    IN  [k \in 1..Len(withId) |-> [id |-> withId[k]["id"], name |-> DeclName(withId[k])]]

\* declarations of the datasource columns and of the standalone calculation
\* elements, in document order
DocumentDecls ==
    Concat([k \in 1..Len(root) |->
        IF root[k].tag = "datasource" THEN ColumnDecls(root[k].columns)
        ELSE IF root[k].tag = "calculation" THEN CalcDecls(<<root[k].attrs>>)
        ELSE <<>>])

Declares(decls, id) == \E k \in 1..Len(decls) : decls[k].id = id

LastName(decls, id) ==
    LET k == CHOOSE k \in 1..Len(decls) :
                /\ decls[k].id = id
                /\ \A j \in (k + 1)..Len(decls) : decls[j].id # id
    IN  decls[k].name

\* C7 as claimed: among the datasource-column and standalone declarations
\* of one identifier, the map holds the display name of the declaration
\* that comes last in the document.
C7_LastInDocumentWins ==
    (pc = "extracted" /\ AllWorksheets(root) = <<>>) =>
        \A k \in 1..Len(DocumentDecls) :
            LET id == DocumentDecls[k].id
            IN  /\ id \in DOMAIN data.calculations
                /\ data.calculations[id] = LastName(DocumentDecls, id)

\* C7 amended: the entry is the value written last in the order of the
\* passes: the last datasource column declaring the identifier; when there
\* is none, the last calculation element carrying the identifier and a
\* caption or name of its own; when there is none either, the last column
\* anywhere in the document declaring it; and no entry otherwise.
C7_LastWriteInPassOrder ==
    pc = "extracted" =>
        LET dsDecls   == ColumnDecls(DsColumns)
            calcDecls == CalcDecls(AllCalculations(root))
            colDecls  == ColumnDecls(AllColumns(root))
            ids == {colDecls[k].id : k \in 1..Len(colDecls)}
                     \cup {calcDecls[k].id : k \in 1..Len(calcDecls)}
        IN  /\ DOMAIN data.calculations = ids
            /\ \A id \in ids :
                  data.calculations[id] =
                     IF Declares(dsDecls, id) THEN LastName(dsDecls, id)
                     ELSE IF Declares(calcDecls, id) THEN LastName(calcDecls, id)
                     ELSE LastName(colDecls, id)

\* a datasource column and a later standalone calculation declare the same
\* identifier under different names, and the column's name is the entry
C7_Witness ==
    /\ pc = "extracted"
    /\ \E i, j \in 1..Len(root) :
          /\ i < j
          /\ root[i].tag = "datasource"
          /\ root[j].tag = "calculation"
          /\ ColumnDecls(root[i].columns) # <<>>
          /\ CalcDecls(<<root[j].attrs>>) # <<>>
          /\ LET c == ColumnDecls(root[i].columns)[1]
                 s == CalcDecls(<<root[j].attrs>>)[1]
             IN  /\ c.id = s.id
                 /\ c.name # s.name
                 /\ data.calculations[c.id] = c.name

\* the first non-empty string of a sequence, "" when there is none
FirstNonEmpty(values) ==
    IF \E k \in 1..Len(values) : values[k] # ""
    THEN values[CHOOSE k \in 1..Len(values) :
                   values[k] # "" /\ \A j \in 1..(k - 1) : values[j] = ""]
    ELSE ""

\* C8: for a datasource with a connection element the recorded endpoint
\* name is the first non-empty of the server, filename and database
\* attributes (empty only when all are absent or empty) and the alias is
\* the datasource caption, by default the datasource name.
C8_EndpointFirstNonEmpty ==
    pc = "extracted" =>
        \A k \in 1..Len(AllDatasources(root)) :
            LET ds == AllDatasources(root)[k]
                ds_name == Get(ds.attrs, "name", "")
                lastOfName == \A j \in (k + 1)..Len(AllDatasources(root)) :
                                 \/ Get(AllDatasources(root)[j].attrs, "name", "") # ds_name
                                 \/ AllDatasources(root)[j].conns = <<>>
            IN  (ds.conns # <<>> /\ lastOfName) =>
                    /\ ds_name \in DOMAIN data.connections
                    /\ data.connections[ds_name].name =
                          FirstNonEmpty(<<Get(ds.conns[1], "server", ""),
                                          Get(ds.conns[1], "filename", ""),
                                          Get(ds.conns[1], "database", "")>>)
                    /\ data.connections[ds_name].alias =
                          IF "caption" \in DOMAIN ds.attrs
                          THEN ds.attrs["caption"] ELSE ds_name

\* field_type by the precedence of the claim; aggregated(col) says when a
\* measure counts as aggregated
TypeByPrecedence(col, aggregated(_)) ==
    IF col.calcs # <<>>
    THEN IF Contains(Get(col.calcs[1], "class", <<>>), Tableau)
         THEN "Table Calculation" ELSE "Calculated Field"
    ELSE IF Get(col.attrs, "role", "") = "measure"
    THEN IF aggregated(col) THEN "Aggregated Measure" ELSE "Measure"
    ELSE "Dimension"

AggregationPresent(col) == "aggregation" \in DOMAIN col.attrs
AggregationNonEmpty(col) ==
    "aggregation" \in DOMAIN col.attrs /\ col.attrs["aggregation"] # ""

FieldsClassified(aggregated(_)) ==
    /\ Len(data.fields) >= Len(DsColumns)
    /\ \A k \in 1..Len(DsColumns) :
          /\ data.fields[k].field_type = TypeByPrecedence(DsColumns[k], aggregated)
          /\ DsColumns[k].calcs # <<>> =>
                data.fields[k].field_type \notin {"Measure", "Aggregated Measure"}

\* C10 as claimed: a measure is "Aggregated Measure" as soon as an
\* aggregation attribute is present.
C10_AggregationPresent ==
    pc \in {"standalone", "usage", "extracted"} => FieldsClassified(AggregationPresent)

\* C10 amended: a measure is "Aggregated Measure" when its aggregation
\* attribute is present and not empty; the rest of the precedence as claimed.
C10_AggregationNonEmpty ==
    pc \in {"standalone", "usage", "extracted"} => FieldsClassified(AggregationNonEmpty)

\* a measure column with an aggregation and a nested calculation
C10_Witness ==
    /\ pc = "extracted"
    /\ \E k \in 1..Len(DsColumns) :
          /\ DsColumns[k].calcs # <<>>
          /\ Get(DsColumns[k].attrs, "role", "") = "measure"
          /\ AggregationNonEmpty(DsColumns[k])
          /\ data.fields[k].field_type = "Calculated Field"

(***************************************************************************)
(* Properties of the standalone-calculation pass.                          *)
(***************************************************************************)
\* the name attribute of a calculation element, empty when absent
CalcName(calc) == Get(calc, "name", <<>>)

\* the names of the fields in a field list
FieldNames(fields) == {fields[k].name : k \in 1..Len(fields)}

\* the step of the standalone-calculation pass
IsStandaloneStep == pc = "standalone" /\ pc' = "usage"

\* positions of the calculations that have to be appended: named as wanted,
\* not the name of a field listed before the pass, and the first of that name
NewCalcs(named(_)) ==
    LET calcs == AllCalculations(root)
    IN  {j \in 1..Len(calcs) :
            /\ named(calcs[j])
            /\ CalcName(calcs[j]) \notin FieldNames(data.fields)
            /\ \A i \in 1..(j - 1) : CalcName(calcs[i]) # CalcName(calcs[j])}

\* the pass keeps the fields it found, and appends one field per calculation
\* of NewCalcs, in document order, with that calculation's own attributes
StandaloneAppended(named(_)) ==
    LET calcs == AllCalculations(root)
        old   == data.fields
        new   == data'.fields
        J     == NewCalcs(named)
        Rank(j) == Cardinality({i \in J : i <= j})
    IN  /\ Len(new) = Len(old) + Cardinality(J)
        /\ SubSeq(new, 1, Len(old)) = old
        /\ \A j \in J :
              LET f == new[Len(old) + Rank(j)]
              IN  /\ f.name = CalcName(calcs[j])
                  /\ f.caption = Get(calcs[j], "caption", CalcName(calcs[j]))
                  /\ f.formula = Get(calcs[j], "formula", <<>>)
                  /\ f.field_type = "Calculated Field"
                  /\ f.datasource = ""
        /\ \A k, l \in (Len(old) + 1)..Len(new) : new[k].name = new[l].name => k = l

AnyCalc(calc) == TRUE
NamedCalc(calc) == CalcName(calc) # <<>>

\* C11 as claimed: every calculation whose name is not the name of a field
\* already listed is appended as a "Calculated Field" with empty datasource;
\* one whose name is already listed is not added and the listed field stays.
C11_UnmatchedNameAppended == [][IsStandaloneStep => StandaloneAppended(AnyCalc)]_vars

\* C11 amended: every calculation with a non-empty name that is not the name
\* of a field already listed is appended as a "Calculated Field" with empty
\* datasource; a calculation without a name, or whose name is that of a
\* datasource column or of an earlier standalone calculation, is not added
\* and the listed fields stay as they are, so no two fields appended by the
\* pass share a name.
C11_NamedUnmatchedAppended == [][IsStandaloneStep => StandaloneAppended(NamedCalc)]_vars

\* after the pass: two calculations of one name and different captions, the
\* first of them appended as a standalone field and the only field of that name
C11_Witness ==
    LET calcs == AllCalculations(root)
    IN  /\ pc = "usage"
        /\ \E i, j \in 1..Len(calcs) :
              /\ i < j
              /\ NamedCalc(calcs[i])
              /\ CalcName(calcs[i]) = CalcName(calcs[j])
              /\ Get(calcs[i], "caption", <<>>) # Get(calcs[j], "caption", <<>>)
              /\ \E k \in 1..Len(data.fields) :
                    /\ data.fields[k].name = CalcName(calcs[i])
                    /\ data.fields[k].datasource = ""
                    /\ data.fields[k].caption = Get(calcs[i], "caption", CalcName(calcs[i]))
                    /\ \A l \in 1..Len(data.fields) :
                          data.fields[l].name = CalcName(calcs[i]) => l = k

(***************************************************************************)
(* Properties of the formula resolver.                                     *)
(***************************************************************************)
Patterns == {calc_pattern, at_pattern, direct_id_pattern}

\* every reference token of s names an id that m holds
AllRefsInMap(s, m) ==
    \A i \in 1..Len(s) : \A pat \in Patterns :
        MatchEnd(s, i, pat) # 0 => MatchId(s, i, pat) \in DOMAIN m

\* no display name of m, once wrapped in brackets, contains a reference token
NamesSafe(m) == \A id \in DOMAIN m : ~HasReference(Replacement(m[id]))

\* C2: for a non-empty formula the status is "Unresolved References" when
\* no replacement was made and the raw formula holds a reference token,
\* else "Partially Resolved" when a replacement was made and the cleaned
\* formula still holds one, else "Success"; a formula without any
\* reference token comes back unchanged and is never "Unresolved References".
C2_StatusClassification ==
    (pc \in {"cleaned", "recleaned"} /\ raw_formula # <<>>) =>
        /\ status =
             IF replacements_made = 0 /\ HasReference(raw_formula)
             THEN "Unresolved References"
             ELSE IF replacements_made >= 1 /\ HasReference(cleaned)
                  THEN "Partially Resolved"
                  ELSE "Success"
        /\ ~HasReference(raw_formula) =>
              (cleaned = raw_formula /\ status = "Success")
        /\ replacements_made = 0 => cleaned = raw_formula

C2_Witness ==
    /\ pc = "cleaned"
    /\ replacements_made >= 1
    /\ HasReference(cleaned)
    /\ status = "Partially Resolved"

\* C3 as claimed: whenever every reference of a non-empty formula is in the
\* map, cleaning the cleaned formula again gives the same text with status
\* "Success", whatever the display names are.
C3_IdempotentAnyNames ==
    (pc = "recleaned" /\ raw_formula # <<>> /\ AllRefsInMap(raw_formula, calc_map)) =>
        /\ recleaned.cleaned = cleaned
        /\ recleaned.status = "Success"

\* C3 amended: the same, for maps none of whose display names, wrapped in
\* brackets, contains a reference token.
C3_IdempotentSafeNames ==
    (/\ pc = "recleaned"
     /\ raw_formula # <<>>
     /\ AllRefsInMap(raw_formula, calc_map)
     /\ NamesSafe(calc_map)) =>
        /\ recleaned.cleaned = cleaned
        /\ recleaned.status = "Success"
        /\ status = "Success"

C3_Witness ==
    /\ pc = "recleaned"
    /\ AllRefsInMap(raw_formula, calc_map)
    /\ NamesSafe(calc_map)
    /\ replacements_made >= 2
    /\ recleaned.cleaned = cleaned
    /\ cleaned # raw_formula

====
